---- MODULE Spec2Model ----
(***************************************************************************)
(* The chat session state machine of the React front end:                  *)
(*   frontend/src/App.tsx          the session manager (state + handlers)  *)
(*   frontend/src/components/Chat  the message list, input and edit box    *)
(*   Sidebar, Modal, Toast         the callers of the handlers             *)
(*                                                                         *)
(* One action is one event handler, or one resumption of the asynchronous  *)
(* handleSendMessage after an await, together with the render and the      *)
(* effects React runs for the state updates it made.  Handlers of discrete *)
(* events see the state of the last committed render (React re-renders     *)
(* before the next event is dispatched); functional updaters see the       *)
(* latest state.  The sidebar is taken to be open (isSidebarOpen gates     *)
(* which buttons are on screen and no state of the session).               *)
(***************************************************************************)
EXTENDS Integers, Sequences, FiniteSets, TLC

VARIABLES
    chats,          \* App.tsx:17  the thread collection (in memory)
    stored,         \* localStorage["chats"]
    selectedChat,   \* App.tsx:20  id of the selected thread, or Null
    messages,       \* App.tsx:21  the live message view
    models,         \* App.tsx:25
    selectedLLM,    \* App.tsx:26  "" when no model is selected
    modelsFetch,    \* position of fetchModels: "pending" or "done"
    isModalOpen,    \* App.tsx:28
    isToastVisible, \* App.tsx:29
    toastMessage,   \* App.tsx:30
    chatToDelete,   \* App.tsx:31
    isSending,      \* Chat.tsx:22 the busy flag of the input area
    sends,          \* the invocations of handleSendMessage that are awaiting
    nextSend,       \* number of the next invocation of handleSendMessage
    now,            \* the clock read by Date.now()
    crashed         \* a render threw: React has unmounted the application

vars == <<chats, stored, selectedChat, messages, models, selectedLLM,
          modelsFetch, isModalOpen, isToastVisible, toastMessage,
          chatToDelete, isSending, sends, nextSend, now, crashed>>

uiVars == <<chats, stored, selectedChat, messages, models, selectedLLM,
            isModalOpen, isToastVisible, toastMessage, chatToDelete,
            isSending>>

---------------------------------------------------------------------------
(* Bounds of the model *)

MaxChats == 2       \* threads created by handleAddChat in one run
MaxTime == 2        \* values of the clock: 1..MaxTime
MaxSends == 2       \* invocations of handleSendMessage in a run of SendsSpec
MaxSendsInSpec == 1 \* invocations of handleSendMessage in a run of Spec
MaxChunks == 2      \* chunks one response stream delivers

---------------------------------------------------------------------------
(* Values *)

Null == -1                                  \* null of `number | null`

Msg(t, u) == [text |-> t, isUser |-> u]
Hole == [hole |-> TRUE]                     \* an empty slot of a sparse array
Undefined == [undefined |-> TRUE]           \* the value undefined
JsonNull == [null |-> TRUE]                 \* the value null

IsMsg(m) == DOMAIN m = {"text", "isUser"}

EmptyText == <<>>
Placeholder == Msg(EmptyText, FALSE)

Max(a, b) == IF a >= b THEN a ELSE b
Min(a, b) == IF a <= b THEN a ELSE b

(* String.prototype.trim on a text: strips the blanks at both ends. *)
RECURSIVE TrimStart(_)
TrimStart(t) ==
    IF t # <<>> /\ Head(t) = " " THEN TrimStart(Tail(t)) ELSE t

RECURSIVE TrimEnd(_)
TrimEnd(t) ==
    IF t # <<>> /\ t[Len(t)] = " " THEN TrimEnd(SubSeq(t, 1, Len(t) - 1)) ELSE t

Trim(t) == TrimEnd(TrimStart(t))

(* new TextDecoder("utf-8").decode(value), without {stream: true}: every    *)
(* call decodes its chunk alone.  Bytes: "a" is an ASCII byte, "L" the lead *)
(* byte and "T" the trail byte of a two-byte character "e'"; a lead byte    *)
(* without its trail byte, or a trail byte alone, decodes to U+FFFD ("?").  *)
RECURSIVE Decode(_)
Decode(bytes) ==
    IF bytes = <<>> THEN <<>>
    ELSE IF Head(bytes) = "L" /\ Len(bytes) >= 2 /\ bytes[2] = "T"
         THEN <<"e'">> \o Decode(SubSeq(bytes, 3, Len(bytes)))
    ELSE IF Head(bytes) \in {"L", "T"}
         THEN <<"?">> \o Decode(Tail(bytes))
    ELSE <<Head(bytes)>> \o Decode(Tail(bytes))

(* [...arr]: the array iterator yields undefined for an empty slot. *)
Spread(arr) ==
    [i \in 1..Len(arr) |-> IF arr[i] = Hole THEN Undefined ELSE arr[i]]

(* arr[index] = v on a copy (index is 0-based): writing past the end       *)
(* leaves empty slots between the old end and index.                       *)
AssignAt(arr, index, v) ==
    [i \in 1..Max(Len(arr), index + 1) |->
        IF i = index + 1 THEN v
        ELSE IF i <= Len(arr) THEN arr[i]
        ELSE Hole]

(* arr.slice(0, end) *)
Slice(arr, end) == SubSeq(arr, 1, Min(end, Len(arr)))

(* messages.map((msg, i) => i === index ? {...msg, text: newText} : msg):  *)
(* map keeps empty slots empty.                                            *)
ReplaceText(arr, index, newText) ==
    [i \in 1..Len(arr) |->
        IF i = index + 1 /\ IsMsg(arr[i])
        THEN [arr[i] EXCEPT !.text = newText]
        ELSE arr[i]]

(* JSON.stringify of the thread collection: an empty slot or undefined in  *)
(* an array is written as null; numbers, strings and booleans are kept.    *)
JSONmessages(arr) ==
    [i \in 1..Len(arr) |-> IF arr[i] \in {Hole, Undefined} THEN JsonNull ELSE arr[i]]

JSONstringify(cs) ==
    [kind |-> "json",
     value |-> [i \in 1..Len(cs) |-> [cs[i] EXCEPT !.messages = JSONmessages(@)]]]

Absent == [kind |-> "absent"]               \* getItem returns null
Malformed == [kind |-> "malformed"]         \* text that is not JSON

(* JSON.parse(localStorage.getItem("chats") || "[]"); Malformed throws.    *)
JSONparse(item) ==
    IF item = Absent THEN <<>> ELSE item.value

(* A variant of the persistence effect that stores the threads without     *)
(* their messages; the store property must tell it from the effect.        *)
PersistedHeadersOnly(cs) ==
    JSONstringify([i \in 1..Len(cs) |-> [cs[i] EXCEPT !.messages = <<>>]])

(* The persistence effect, App.tsx:33-35: runs after a render in which     *)
(* chats changed and overwrites the stored collection.                     *)
Persisted(cs) == JSONstringify(cs)

ChatIds(cs) == {cs[i].id : i \in 1..Len(cs)}

(* A variant of the update that adds a thread when none has the id; the    *)
(* deletion property must tell it from the map.                            *)
SetOrAddChatMessages(cs, id, ms) ==
    IF \E i \in 1..Len(cs) : cs[i].id = id
    THEN [i \in 1..Len(cs) |->
             IF cs[i].id = id THEN [cs[i] EXCEPT !.messages = ms] ELSE cs[i]]
    ELSE Append(cs, [id |-> id, name |-> "", date |-> "", messages |-> ms])

(* prevChats.map(chat => chat.id === id ? {...chat, messages: ms} : chat)  *)
SetChatMessages(cs, id, ms) ==
    [i \in 1..Len(cs) |->
        IF cs[i].id = id THEN [cs[i] EXCEPT !.messages = ms] ELSE cs[i]]

(* A variant of the lookup that ignores the id; the selection property     *)
(* must tell it from find.                                                 *)
FirstChat(cs, id) == cs[1]

(* chats.find(c => c.id === id): the first match *)
FindChat(cs, id) ==
    LET hits == {i \in 1..Len(cs) : cs[i].id = id}
    IN  cs[CHOOSE i \in hits : \A j \in hits : i <= j]

(* new Date().toLocaleDateString(): every clock value of a run is one day  *)
DateString(t) == "1/1/2025"

ChatName(n) == "Chat " \o ToString(n)

(* Chat's render: messages.map(msg => ... msg.isUser ...) throws on an     *)
(* element that is undefined or null; map skips empty slots.  Chat is      *)
(* rendered when models.length > 0 and maps when selectedChat !== null.    *)
RenderThrows(mods, sel, msgs) ==
    /\ mods # <<>>
    /\ sel # Null
    /\ \E i \in 1..Len(msgs) : msgs[i] \in {Undefined, JsonNull}

---------------------------------------------------------------------------
(* Inputs *)

(* What localStorage may hold under "chats" when the page loads: nothing,  *)
(* text that is not JSON, or the collection a previous session saved.      *)
SavedChats ==
    << [id |-> 0, name |-> ChatName(1), date |-> DateString(0),
        messages |-> <<Msg(<<"q">>, TRUE), Msg(<<"r">>, FALSE)>>] >>

StoredAtStart == {Absent, Malformed, JSONstringify(SavedChats)}

(* Bodies of GET /models: no model, two models, and a list whose first     *)
(* name is the empty string, which setSelectedLLM stores and the guard of  *)
(* handleSendMessage reads as no model.                                    *)
ModelLists == {<<>>, <<"m1", "m2">>, <<"", "m1">>}
ModelNames == {"", "m1", "m2"}              \* values of the <select>
Inputs == {<<>>, <<" ">>, <<"x">>}          \* texts typed into the input box
EditTexts == {<<" ">>, <<"y">>}             \* texts typed into the edit box
Names == {"", "n"}                          \* texts typed into the rename box
Chunks == {<<"a">>, <<"L">>}                \* values reader.read() delivers
(* The k-th value of a response stream: the streams of the model are the   *)
(* prefixes of "a", "L", "a", ...                                          *)
ChunkAt(k) == IF k % 2 = 1 THEN <<"a">> ELSE <<"L">>
AbortCauses == {"status", "nobody", "throw"}
Ids == 0..MaxTime                           \* ids a caller may pass

---------------------------------------------------------------------------
(* Construction: App.tsx:17-54.  The useState initialiser parses the saved *)
(* collection (a throw there unmounts the application before the first     *)
(* render), the persistence effect writes it back and fetchModels starts.  *)

Init ==
    \E item \in StoredAtStart :
        /\ crashed = (item = Malformed)
        /\ chats = IF item = Malformed THEN <<>> ELSE JSONparse(item)
        /\ stored = IF item = Malformed THEN item ELSE JSONstringify(chats)
        /\ selectedChat = Null
        /\ messages = <<>>
        /\ models = <<>>
        /\ selectedLLM = ""
        /\ modelsFetch = IF item = Malformed THEN "done" ELSE "pending"
        /\ isModalOpen = FALSE
        /\ isToastVisible = FALSE
        /\ toastMessage = ""
        /\ chatToDelete = Null
        /\ isSending = FALSE
        /\ sends = {}
        /\ nextSend = 1
        /\ now = 1

(* Time passes: Date.now() never goes back, and may return the same value  *)
(* to two calls.                                                           *)
Tick ==
    /\ now < MaxTime
    /\ now' = now + 1
    /\ UNCHANGED <<uiVars, modelsFetch, sends, nextSend, crashed>>

---------------------------------------------------------------------------
(* fetchModels, App.tsx:37-54 *)

(* A variant of the default that takes the last model of the list; the     *)
(* default-model property must tell it from the code's choice.            *)
DefaultModelLast(list, current) ==
    IF Len(list) > 0 THEN list[Len(list)] ELSE current

DefaultModel(list, current) == IF Len(list) > 0 THEN list[1] ELSE current

FetchModelsOk(list) ==
    /\ ~crashed
    /\ modelsFetch = "pending"
    /\ modelsFetch' = "done"
    /\ IF RenderThrows(list, selectedChat, messages)
       THEN /\ crashed' = TRUE
            /\ UNCHANGED <<models, selectedLLM>>
       ELSE /\ models' = list
            /\ selectedLLM' = DefaultModel(list, selectedLLM)
            /\ UNCHANGED crashed
    /\ UNCHANGED <<chats, stored, selectedChat, messages, isModalOpen,
                   isToastVisible, toastMessage, chatToDelete, isSending,
                   sends, nextSend, now>>

(* !response.ok, or fetch / response.json() throws: caught and logged *)
FetchModelsFail ==
    /\ ~crashed
    /\ modelsFetch = "pending"
    /\ modelsFetch' = "done"
    /\ UNCHANGED <<uiVars, sends, nextSend, now, crashed>>

(* handleLLMChange, App.tsx:220-222; the <select> lists models *)
HandleLLMChange(llm) ==
    /\ ~crashed
    /\ llm \in {models[i] : i \in 1..Len(models)}
    /\ selectedLLM' = llm
    /\ UNCHANGED <<chats, stored, selectedChat, messages, models, modelsFetch,
                   isModalOpen, isToastVisible, toastMessage, chatToDelete,
                   isSending, sends, nextSend, now, crashed>>

---------------------------------------------------------------------------
(* Threads: App.tsx:56-106 *)

(* handleSelectChat, App.tsx:56-62 *)
HandleSelectChat(chatId) ==
    /\ ~crashed
    /\ IF chatId \in ChatIds(chats)
       THEN LET chat == FindChat(chats, chatId)
            IN  IF RenderThrows(models, chatId, chat.messages)
                THEN /\ crashed' = TRUE
                     /\ UNCHANGED <<selectedChat, messages>>
                ELSE /\ selectedChat' = chatId
                     /\ messages' = chat.messages
                     /\ UNCHANGED crashed
       ELSE UNCHANGED <<selectedChat, messages, crashed>>
    /\ UNCHANGED <<chats, stored, models, selectedLLM, modelsFetch,
                   isModalOpen, isToastVisible, toastMessage, chatToDelete,
                   isSending, sends, nextSend, now>>

(* A variant of newChat that starts the thread with a placeholder; the     *)
(* creation property must tell it from newChat.                            *)
NewChatWithPlaceholder(cs, t) ==
    [id |-> t,
     name |-> ChatName(Len(cs) + 1),
     date |-> DateString(t),
     messages |-> <<Placeholder>>]

(* The thread handleAddChat builds, App.tsx:65-70 *)
NewChat(cs, t) ==
    [id |-> t, name |-> ChatName(Len(cs) + 1), date |-> DateString(t),
     messages |-> <<>>]

(* handleAddChat, App.tsx:64-74 *)
HandleAddChat ==
    /\ ~crashed
    /\ Len(chats) < MaxChats
    /\ chats' = Append(chats, NewChat(chats, now))
    /\ stored' = Persisted(chats')
    /\ selectedChat' = now
    /\ messages' = <<>>
    /\ UNCHANGED <<models, selectedLLM, modelsFetch, isModalOpen,
                   isToastVisible, toastMessage, chatToDelete, isSending,
                   sends, nextSend, now, crashed>>

(* prevChats.map(chat => chat.id === chatId ? {...chat, name} : chat) *)
RenameIn(cs, chatId, newName) ==
    [i \in 1..Len(cs) |->
        IF cs[i].id = chatId THEN [cs[i] EXCEPT !.name = newName] ELSE cs[i]]

(* handleRenameChat, App.tsx:76-84, called by Sidebar's handleSaveChatName *)
(* for a thread of the list.                                               *)
HandleRenameChat(chatId, newName) ==
    /\ ~crashed
    /\ chatId \in ChatIds(chats)
    /\ chats' = RenameIn(chats, chatId, newName)
    /\ stored' = Persisted(chats')
    /\ toastMessage' = "Chat renamed successfully!"
    /\ isToastVisible' = TRUE
    /\ UNCHANGED <<selectedChat, messages, models, selectedLLM, modelsFetch,
                   isModalOpen, chatToDelete, isSending, sends, nextSend,
                   now, crashed>>

(* handleDeleteChat, App.tsx:86-89, called by Sidebar's trash icon *)
HandleDeleteChat(chatId) ==
    /\ ~crashed
    /\ chatId \in ChatIds(chats)
    /\ isModalOpen' = TRUE
    /\ chatToDelete' = chatId
    /\ UNCHANGED <<chats, stored, selectedChat, messages, models, selectedLLM,
                   modelsFetch, isToastVisible, toastMessage, isSending,
                   sends, nextSend, now, crashed>>

(* chats.filter(chat => chat.id !== chatToDelete) *)
RemoveChat(cs, chatId) ==
    LET Keep(c) == c.id # chatId IN SelectSeq(cs, Keep)

(* A variant of the selection after a deletion that keeps what was         *)
(* selected; the selection invariant must tell it from the code's.         *)
SelectionKept(sel, deleted) == sel

(* What confirmDeleteChat leaves selected and shown, App.tsx:94-95 *)
SelectionAfterDelete(sel, deleted) == Null
ViewAfterDelete(sel, msgs, deleted) == <<>>

(* confirmDeleteChat, App.tsx:91-101; Modal shows Confirm while it is open *)
ConfirmDeleteChat ==
    /\ ~crashed
    /\ isModalOpen
    /\ IF chatToDelete # Null
       THEN /\ chats' = RemoveChat(chats, chatToDelete)
            /\ stored' = Persisted(chats')
            /\ selectedChat' = SelectionAfterDelete(selectedChat, chatToDelete)
            /\ messages' = ViewAfterDelete(selectedChat, messages, chatToDelete)
            /\ chatToDelete' = Null
            /\ isModalOpen' = FALSE
            /\ toastMessage' = "Chat deleted successfully!"
            /\ isToastVisible' = TRUE
       ELSE UNCHANGED <<chats, stored, selectedChat, messages, chatToDelete,
                        isModalOpen, toastMessage, isToastVisible>>
    /\ UNCHANGED <<models, selectedLLM, modelsFetch, isSending, sends,
                   nextSend, now, crashed>>

(* A variant of closeModal that removes the thread all the same; the       *)
(* decline property must tell it from closeModal.                          *)
CloseModalDeleting ==
    /\ ~crashed
    /\ isModalOpen
    /\ isModalOpen' = FALSE
    /\ chatToDelete' = Null
    /\ chats' = RemoveChat(chats, chatToDelete)
    /\ stored' = Persisted(chats')
    /\ UNCHANGED <<selectedChat, messages, models, selectedLLM,
                   modelsFetch, isToastVisible, toastMessage, isSending,
                   sends, nextSend, now, crashed>>

(* closeModal, App.tsx:103-106; Modal shows Cancel while it is open *)
CloseModal ==
    /\ ~crashed
    /\ isModalOpen
    /\ isModalOpen' = FALSE
    /\ chatToDelete' = Null
    /\ UNCHANGED <<chats, stored, selectedChat, messages, models, selectedLLM,
                   modelsFetch, isToastVisible, toastMessage, isSending,
                   sends, nextSend, now, crashed>>

(* Toast's onClose, App.tsx:294, run by its timer *)
CloseToast ==
    /\ ~crashed
    /\ isToastVisible
    /\ isToastVisible' = FALSE
    /\ UNCHANGED <<chats, stored, selectedChat, messages, models, selectedLLM,
                   modelsFetch, isModalOpen, toastMessage, chatToDelete,
                   isSending, sends, nextSend, now, crashed>>

---------------------------------------------------------------------------
(* Sending: handleSendMessage, App.tsx:108-192.  The part before the first *)
(* await runs inside the handler that calls it; each await is a position   *)
(* of the invocation ("fetching": await fetch, "reading": await            *)
(* reader.read()), and what follows it is a resumption.                    *)

(* [...messages, {text: message, isUser: true}], App.tsx:115 *)
WithUserMessage(msgs, message) == Spread(msgs) \o <<Msg(message, TRUE)>>

(* [...updatedChatMessages, {text: "", isUser: false}], App.tsx:131-134 *)
WithPlaceholder(updatedChatMessages) ==
    Spread(updatedChatMessages) \o <<Placeholder>>

(* The invocation as it stands at await fetch: its closure (selectedChat,  *)
(* selectedLLM, updatedChatMessages, llmResponseIndex, llmResponseText,    *)
(* and whether updatedMessages was passed, as updateMessage does),         *)
(* the request it posted, and the chunks its reader has delivered.         *)
NewSend(n, message, updatedChatMessages, replay) ==
    [id |-> n,
     replay |-> replay,
     chat |-> selectedChat,
     content |-> message,
     model |-> selectedLLM,
     history |-> updatedChatMessages,
     llmResponseIndex |-> Len(updatedChatMessages),
     llmResponseText |-> EmptyText,
     chunks |-> <<>>,
     phase |-> "fetching"]

(* A variant of the guard that does not read the model; the no-op         *)
(* property must tell it from the guard.                                   *)
CanSendWithThread == selectedChat # Null

(* The guard of handleSendMessage, App.tsx:112 *)
CanSend == selectedChat # Null /\ selectedLLM # ""

(* What handleSend leaves in the busy flag: setIsSending(true) and         *)
(* setIsSending(false) are queued in one handler, around a call that       *)
(* returns at its first await; the last one queued is what is rendered.    *)
BusyAfterHandleSend(calledSend) == FALSE

(* handleSend, Chat.tsx:31-38 (and its later version), calling             *)
(* handleSendMessage(input).  The input area is rendered when              *)
(* models.length > 0 and selectedChat !== null.                            *)
HandleSend(input) ==
    /\ ~crashed
    /\ models # <<>>
    /\ selectedChat # Null
    /\ IF Trim(input) # <<>> /\ ~isSending /\ CanSend
       THEN LET updatedChatMessages == WithUserMessage(messages, input)
                view == WithPlaceholder(updatedChatMessages)
            IN  /\ sends' = sends \cup {NewSend(nextSend, input, updatedChatMessages, FALSE)}
                /\ nextSend' = nextSend + 1
                /\ IF RenderThrows(models, selectedChat, view)
                   THEN /\ crashed' = TRUE
                        /\ UNCHANGED <<chats, stored, messages, isSending>>
                   ELSE /\ chats' = SetChatMessages(chats, selectedChat, updatedChatMessages)
                        /\ stored' = Persisted(chats')
                        /\ messages' = view
                        /\ isSending' = BusyAfterHandleSend(TRUE)
                        /\ UNCHANGED crashed
       ELSE UNCHANGED <<chats, stored, messages, isSending, sends,
                        nextSend, crashed>>
    /\ UNCHANGED <<selectedChat, models, selectedLLM, modelsFetch,
                   isModalOpen, isToastVisible, toastMessage, chatToDelete,
                   now>>

(* A variant of the truncation that keeps the messages after the edited    *)
(* one; the edit property must tell it from the slice.                     *)
TruncatedKeepsTail(msgs, index, newText) == ReplaceText(msgs, index, newText)

(* updatedMessages.slice(0, index + 1) of the map, App.tsx:196-200 *)
Truncated(msgs, index, newText) == Slice(ReplaceText(msgs, index, newText), index + 1)

(* saveEditedMessage, Chat.tsx:45-51, calling updateMessage, App.tsx:194-  *)
(* 218, which calls handleSendMessage(text, truncatedMessages).  The edit  *)
(* box with its Save button is rendered on a user message of the view.     *)
SaveEditedMessage(index, editedMessage) ==
    /\ ~crashed
    /\ models # <<>>
    /\ selectedChat # Null
    /\ index < Len(messages)
    /\ IsMsg(messages[index + 1])
    /\ messages[index + 1].isUser
    /\ IF Trim(editedMessage) # <<>>
       THEN LET truncatedMessages == Truncated(messages, index, editedMessage)
                lastUserMessage == truncatedMessages[index + 1].text
                view == IF CanSend THEN WithPlaceholder(truncatedMessages)
                                   ELSE truncatedMessages
            IN  /\ IF CanSend
                   THEN /\ sends' = sends \cup
                              {NewSend(nextSend, lastUserMessage, truncatedMessages, TRUE)}
                        /\ nextSend' = nextSend + 1
                   ELSE UNCHANGED <<sends, nextSend>>
                /\ IF RenderThrows(models, selectedChat, view)
                   THEN /\ crashed' = TRUE
                        /\ UNCHANGED <<chats, stored, messages>>
                   ELSE /\ chats' = SetChatMessages(chats, selectedChat, truncatedMessages)
                        /\ stored' = Persisted(chats')
                        /\ messages' = view
                        /\ UNCHANGED crashed
       ELSE UNCHANGED <<chats, stored, messages, sends, nextSend, crashed>>
    /\ UNCHANGED <<selectedChat, models, selectedLLM, modelsFetch,
                   isModalOpen, isToastVisible, toastMessage, chatToDelete,
                   isSending, now>>

(* await fetch returns a response with ok and a body, App.tsx:150-157 *)
FetchResponds(s) ==
    /\ s \in sends
    /\ s.phase = "fetching"
    /\ sends' = (sends \ {s}) \cup {[s EXCEPT !.phase = "reading"]}
    /\ UNCHANGED <<uiVars, modelsFetch, nextSend, now, crashed>>

(* !response.ok, no response.body (App.tsx:150-153: return), or fetch      *)
(* throws (App.tsx:188-190: catch): the invocation ends.                   *)
FetchFails(s, cause) ==
    /\ s \in sends
    /\ s.phase = "fetching"
    /\ sends' = sends \ {s}
    /\ UNCHANGED <<uiVars, modelsFetch, nextSend, now, crashed>>

(* llmResponseText += chunk, App.tsx:162-163 *)
Accumulate(llmResponseText, value) == llmResponseText \o Decode(value)

(* The updater of App.tsx:165-172 *)
WithPartial(prevMessages, llmResponseIndex, llmResponseText) ==
    AssignAt(Spread(prevMessages), llmResponseIndex, Msg(llmResponseText, FALSE))

(* reader.read() delivers a chunk, App.tsx:160-173.  After the application *)
(* was unmounted the state updates do nothing.                             *)
ReadChunk(s, value) ==
    /\ s \in sends
    /\ s.phase = "reading"
    /\ Len(s.chunks) < MaxChunks
    /\ value = ChunkAt(Len(s.chunks) + 1)
    /\ LET text == Accumulate(s.llmResponseText, value)
           view == WithPartial(messages, s.llmResponseIndex, text)
       IN  /\ sends' = (sends \ {s}) \cup
                 {[s EXCEPT !.llmResponseText = text, !.chunks = Append(@, value)]}
           /\ IF crashed
              THEN UNCHANGED <<messages, crashed>>
              ELSE IF RenderThrows(models, selectedChat, view)
                   THEN crashed' = TRUE /\ UNCHANGED messages
                   ELSE messages' = view /\ UNCHANGED crashed
    /\ UNCHANGED <<chats, stored, selectedChat, models, selectedLLM,
                   modelsFetch, isModalOpen, isToastVisible, toastMessage,
                   chatToDelete, isSending, nextSend, now>>

(* [...updatedChatMessages, {text: llmResponseText, isUser: false}] *)
WithReply(updatedChatMessages, llmResponseText) ==
    Spread(updatedChatMessages) \o <<Msg(llmResponseText, FALSE)>>

(* reader.read() reports done, App.tsx:161 and 175-187 *)
ReadDone(s) ==
    /\ s \in sends
    /\ s.phase = "reading"
    /\ sends' = sends \ {s}
    /\ IF crashed
       THEN UNCHANGED <<chats, stored>>
       ELSE /\ chats' = SetChatMessages(chats, s.chat, WithReply(s.history, s.llmResponseText))
            /\ stored' = Persisted(chats')
    /\ UNCHANGED <<selectedChat, messages, models, selectedLLM, modelsFetch,
                   isModalOpen, isToastVisible, toastMessage, chatToDelete,
                   isSending, nextSend, now, crashed>>

(* reader.read() throws, App.tsx:188-190: caught and logged *)
ReadThrows(s) ==
    /\ s \in sends
    /\ s.phase = "reading"
    /\ sends' = sends \ {s}
    /\ UNCHANGED <<uiVars, modelsFetch, nextSend, now, crashed>>

---------------------------------------------------------------------------
(* The next-state relations.  Messaging is what happens while messages are *)
(* exchanged: threads are created, selected and deleted, messages are sent *)
(* and edited, and the invocations of handleSendMessage resume; at most    *)
(* maxSends invocations pass the guard of handleSendMessage in one run.    *)

Messaging(maxSends) ==
    \/ Tick
    \/ \E list \in ModelLists : FetchModelsOk(list)
    \/ FetchModelsFail
    \/ \E chatId \in Ids : HandleSelectChat(chatId)
    \/ HandleAddChat
    \/ \E chatId \in Ids : HandleDeleteChat(chatId)
    \/ ConfirmDeleteChat
    \/ CloseModal
    \/ \E input \in Inputs : nextSend <= maxSends /\ HandleSend(input)
    \/ \E index \in 0..(Len(messages) - 1), text \in EditTexts :
           nextSend <= maxSends /\ SaveEditedMessage(index, text)
    \/ \E s \in sends : FetchResponds(s)
    \/ \E s \in sends, cause \in AbortCauses : FetchFails(s, cause)
    \/ \E s \in sends, value \in Chunks : ReadChunk(s, value)
    \/ \E s \in sends : ReadDone(s)
    \/ \E s \in sends : ReadThrows(s)

(* Every handler, with one message exchange at a time *)
Next ==
    \/ Messaging(MaxSendsInSpec)
    \/ \E llm \in ModelNames : HandleLLMChange(llm)
    \/ \E chatId \in Ids, newName \in Names : HandleRenameChat(chatId, newName)
    \/ CloseToast

Spec == Init /\ [][Next]_vars

(* Message exchanges that overlap; no thread is renamed, the notification  *)
(* stays, and the model first selected is kept.                            *)
SendsNext == Messaging(MaxSends)

SendsSpec == Init /\ [][SendsNext]_vars

---------------------------------------------------------------------------
(* Definitions the properties share *)

(* What a load of the store would return now *)
PersistedChats == JSONparse(stored)

(* c1 + ... + ck of the chunks a reader delivered, each decoded *)
RECURSIVE ConcatDecoded(_)
ConcatDecoded(chunks) ==
    IF chunks = <<>> THEN EmptyText
    ELSE Decode(Head(chunks)) \o ConcatDecoded(Tail(chunks))

InFlight == sends

---------------------------------------------------------------------------
(* C1: while a send is in flight the busy flag isSending is set and no     *)
(* further send is started, so that at most one send is in flight per      *)
(* thread.                                                                 *)
C1_BusyWhileInFlight ==
    /\ InFlight # {} => isSending
    /\ \A s, t \in InFlight : s.chat = t.chat => s = t

(* C2: after a send has processed its k-th chunk, the entry of the live    *)
(* view at the placeholder's index is the assistant message whose text is  *)
(* the concatenation of the chunks c1..ck delivered so far.                *)
C2_CumulativeText ==
    [][\A s \in sends, value \in Chunks :
          ReadChunk(s, value) =>
              /\ Len(messages') > s.llmResponseIndex
              /\ messages'[s.llmResponseIndex + 1]
                     = Msg(ConcatDecoded(Append(s.chunks, value)), FALSE)]_vars

(* C3: when the stream of a send completes, the stored sequence of the     *)
(* thread the send was issued on is the history sent with the request      *)
(* followed by one assistant message holding the concatenation of all the  *)
(* chunks.                                                                 *)
C3_CompletionPersistsReply ==
    [][\A s \in sends :
          ReadDone(s) =>
              \A i \in 1..Len(PersistedChats') :
                  PersistedChats'[i].id = s.chat =>
                      PersistedChats'[i].messages
                          = s.history \o <<Msg(ConcatDecoded(s.chunks), FALSE)>>]_vars

(* C4: when the request of a send fails before any chunk is read, the      *)
(* user's message is stored in the thread, the stored sequence has gained  *)
(* no assistant entry and the live view shows the empty placeholder: the   *)
(* send stored the thread's history ending with the user's message and     *)
(* showed the empty placeholder when it was issued, and its failure        *)
(* changes neither the collection, the store nor the live view.            *)
C4_AbortKeepsUserMessage ==
    [][/\ \A input \in Inputs :
              (HandleSend(input) /\ sends' # sends) =>
                  \A s \in sends' \ sends :
                      /\ s.history[Len(s.history)] = Msg(input, TRUE)
                      /\ \A i \in 1..Len(PersistedChats') :
                             PersistedChats'[i].id = s.chat =>
                                 PersistedChats'[i].messages = s.history
                      /\ messages' = s.history \o <<Placeholder>>
       /\ \A s \in sends, cause \in AbortCauses :
              FetchFails(s, cause) => UNCHANGED <<chats, stored, messages>>]_vars

(* The first index + 1 messages of the view with the text of the message   *)
(* at index replaced.                                                      *)
EditedPrefix(msgs, index, newText) ==
    [j \in 1..(index + 1) |->
        IF j = index + 1 THEN Msg(newText, msgs[j].isUser) ELSE msgs[j]]

(* An edit issued exactly one request, with content newText and the        *)
(* truncated sequence as history, on the selected thread.                  *)
IssuedOneSend(newText, history) ==
    \E s \in sends' :
        /\ s \notin sends
        /\ sends' = sends \cup {s}
        /\ s.content = newText
        /\ s.history = history
        /\ s.chat = selectedChat
        /\ s.phase = "fetching"

(* C5 as stated: editMessage(i, newText) sets the live view and the stored *)
(* sequence of the selected thread to the first i+1 messages with message  *)
(* i's text replaced, and issues one send with that content and history.   *)
C5_EditSetsViewToTruncated ==
    [][\A index \in 0..(Len(messages) - 1), newText \in EditTexts :
          (SaveEditedMessage(index, newText) /\ Trim(newText) # <<>>) =>
              LET truncated == EditedPrefix(messages, index, newText)
              IN  /\ messages' = truncated
                  /\ \E i \in 1..Len(PersistedChats') :
                         PersistedChats'[i].id = selectedChat
                  /\ \A i \in 1..Len(PersistedChats') :
                         PersistedChats'[i].id = selectedChat =>
                             PersistedChats'[i].messages = truncated
                  /\ IssuedOneSend(newText, truncated)]_vars

(* C5 amended: the stored sequence is the truncated one as stated; with a  *)
(* model selected the live view is the truncated sequence followed by the  *)
(* empty placeholder of the replayed send, which is the one send issued;   *)
(* with no model selected the live view is the truncated sequence and no   *)
(* send is issued.                                                         *)
C5_EditTruncatesAndReplays ==
    [][\A index \in 0..(Len(messages) - 1), newText \in EditTexts :
          (SaveEditedMessage(index, newText) /\ Trim(newText) # <<>>) =>
              LET truncated == EditedPrefix(messages, index, newText)
              IN  /\ \E i \in 1..Len(PersistedChats') :
                         PersistedChats'[i].id = selectedChat
                  /\ \A i \in 1..Len(PersistedChats') :
                         PersistedChats'[i].id = selectedChat =>
                             PersistedChats'[i].messages = truncated
                  /\ IF selectedLLM # ""
                     THEN /\ messages' = truncated \o <<Placeholder>>
                          /\ IssuedOneSend(newText, truncated)
                     ELSE /\ messages' = truncated
                          /\ sends' = sends]_vars

(* A message of a stored thread that had a reply was edited: the thread is *)
(* cut to the edited message, the view shows it with the placeholder, and  *)
(* the replayed request is awaiting its response.                          *)
C5_Witness ==
    \E s \in sends :
        /\ s.phase = "fetching"
        /\ s.content = <<"y">>
        /\ s.chat = 0
        /\ s.history = <<Msg(<<"y">>, TRUE)>>
        /\ messages = <<Msg(<<"y">>, TRUE), Placeholder>>
        /\ selectedChat = 0
        /\ PersistedChats[1].messages = s.history
        /\ ~crashed

(* C6: every step that changes the collection or the store leaves under    *)
(* "chats" the serialisation of the collection in memory, and loading it   *)
(* gives the collection back.                                              *)
C6_StoreMatchesMemory ==
    [][/\ stored' = JSONstringify(chats')
       /\ JSONparse(stored') = chats']_<<chats, stored>>

(* A renamed thread holding a completed reply is in memory and stored.     *)
C6_Witness ==
    /\ \E i \in 1..Len(chats) :
           /\ chats[i].name = "n"
           /\ Len(chats[i].messages) = 2
           /\ chats[i].messages[2] = Msg(<<"a", "?">>, FALSE)
    /\ stored = JSONstringify(chats)
    /\ JSONparse(stored) = chats

(* C7: requesting a deletion and declining it change neither the           *)
(* collection, the selection nor the live view, and a thread leaves the    *)
(* collection only in a step that confirms a deletion.                     *)
C7_DeclineChangesNothing ==
    [][/\ (CloseModal \/ \E chatId \in Ids : HandleDeleteChat(chatId)) =>
              UNCHANGED <<chats, stored, selectedChat, messages>>
       /\ Len(chats') < Len(chats) => ConfirmDeleteChat]_vars

(* The deletion of the selected thread was requested and can be declined.  *)
C7_Witness ==
    /\ isModalOpen
    /\ chatToDelete = selectedChat
    /\ chatToDelete \in ChatIds(chats)
    /\ messages # <<>>
    /\ Len(chats) = 2

(* The collection without its k-th thread *)
WithoutThread(cs, k) == SubSeq(cs, 1, k - 1) \o SubSeq(cs, k + 1, Len(cs))

(* C8: confirming a deletion removes exactly the thread whose deletion was *)
(* requested: one thread, with the requested id, leaves the collection,    *)
(* the others stay in order and unchanged, and the prompt is closed.       *)
C8_ConfirmRemovesExactlyOne ==
    [][(ConfirmDeleteChat /\ chatToDelete # Null) =>
          /\ \E k \in 1..Len(chats) :
                 /\ chats[k].id = chatToDelete
                 /\ chats' = WithoutThread(chats, k)
          /\ ~isModalOpen']_vars

(* C9: confirming clears the selection when the deleted thread was the     *)
(* selected one, and leaves the selection and the live view unchanged when *)
(* another thread was deleted.                                             *)
C9_SelectionAfterConfirm ==
    [][(ConfirmDeleteChat /\ chatToDelete # Null) =>
          IF chatToDelete = selectedChat
          THEN selectedChat' = Null
          ELSE UNCHANGED <<selectedChat, messages>>]_vars

(* C10: selecting an id that is not in the collection changes neither the  *)
(* selection nor the live view; selecting one that is makes it the         *)
(* selection and shows the stored message sequence of that thread.         *)
C10_SelectThread ==
    [][\A chatId \in Ids :
          HandleSelectChat(chatId) =>
              IF \E i \in 1..Len(chats) : chats[i].id = chatId
              THEN /\ selectedChat' = chatId
                   /\ \E i \in 1..Len(PersistedChats) :
                          /\ PersistedChats[i].id = chatId
                          /\ messages' = PersistedChats[i].messages
              ELSE UNCHANGED <<selectedChat, messages>>]_vars

(* The stored thread of an earlier session is selected and shown.          *)
C10_Witness ==
    /\ selectedChat = 0
    /\ messages = <<Msg(<<"q">>, TRUE), Msg(<<"r">>, FALSE)>>
    /\ \E i \in 1..Len(chats) : chats[i].id = 0 /\ chats[i].messages = messages
    /\ Len(chats) = 2

(* C11: sendMessage(text) with no thread selected or no model selected     *)
(* changes neither the collection, the store nor the live view and issues  *)
(* no request; called by an edit, it adds nothing to what the edit did.    *)
C11_SendGuardedNoOp ==
    [][/\ \A input \in Inputs :
              (HandleSend(input) /\ (selectedChat = Null \/ selectedLLM = "")) =>
                  UNCHANGED <<chats, stored, messages, sends>>
       /\ \A index \in 0..(Len(messages) - 1), newText \in EditTexts :
              (SaveEditedMessage(index, newText)
                   /\ (selectedChat = Null \/ selectedLLM = "")) =>
                  /\ sends' = sends
                  /\ Trim(newText) # <<>> =>
                         messages' = EditedPrefix(messages, index, newText)]_vars

(* A thread with messages is shown, models are listed and none is          *)
(* selected, so that the next send meets the guard.                        *)
C11_Witness ==
    /\ models # <<>>
    /\ selectedLLM = ""
    /\ selectedChat # Null
    /\ messages # <<>>
    /\ sends = {}
    /\ ~crashed

(* C12: the load of the stored chats at startup gives the empty collection *)
(* and does not crash when the stored value is malformed (nothing stored   *)
(* gives the empty collection, which Init writes back at once).            *)
C12_MalformedLoadsEmpty ==
    stored = Malformed => (~crashed /\ chats = <<>>)

(* C13: in every reachable state, when no thread is selected the live view *)
(* holds no message.                                                       *)
C13_NoSelectionEmptyView ==
    selectedChat = Null => messages = <<>>

(* C14: the startup fetch of the models keeps the returned list in its     *)
(* order and selects its first element when it is not empty; an empty      *)
(* list, a non-success status or a failed fetch leave the model set empty  *)
(* and no model selected.                                                  *)
C14_DefaultModel ==
    [][/\ \A list \in ModelLists :
              FetchModelsOk(list) =>
                  /\ models' = list
                  /\ IF list # <<>>
                     THEN selectedLLM' = list[1]
                     ELSE selectedLLM' = ""
       /\ FetchModelsFail => (models' = <<>> /\ selectedLLM' = "")]_vars

(* The fetch returned two models and the first one is selected.            *)
C14_Witness ==
    /\ modelsFetch = "done"
    /\ models = <<"m1", "m2">>
    /\ selectedLLM = "m1"
    /\ ~crashed

(* C15: createThread appends one thread with no messages at the end of the *)
(* collection, selects it and empties the live view; the threads that      *)
(* existed keep their positions and contents.                              *)
C15_CreateAppendsAndSelects ==
    [][HandleAddChat =>
          /\ Len(chats') = Len(chats) + 1
          /\ SubSeq(chats', 1, Len(chats)) = chats
          /\ chats'[Len(chats')].messages = <<>>
          /\ selectedChat' = chats'[Len(chats')].id
          /\ messages' = <<>>]_vars

(* A thread was created after the stored one, while that one was shown.    *)
C15_Witness ==
    /\ Len(chats) = 2
    /\ chats[1] = SavedChats[1]
    /\ chats[2].messages = <<>>
    /\ chats[2].name = "Chat 2"
    /\ selectedChat = chats[2].id
    /\ selectedChat # chats[1].id
    /\ messages = <<>>

(* C16: renameThread(id, newName) sets the name of the thread to newName,  *)
(* whatever newName is, shows the success notification, and changes no     *)
(* other thread, no messages, and neither the selection nor the live view. *)
C16_RenameOneThread ==
    [][\A chatId \in Ids, newName \in Names :
          HandleRenameChat(chatId, newName) =>
              /\ \E k \in 1..Len(chats) :
                     /\ chats[k].id = chatId
                     /\ chats' = [chats EXCEPT ![k].name = newName]
              /\ isToastVisible'
              /\ toastMessage' = "Chat renamed successfully!"
              /\ UNCHANGED <<selectedChat, messages>>]_vars

(* The stored sequence of every thread with the id is ms *)
StoredAs(id, ms) ==
    \A i \in 1..Len(PersistedChats') :
        PersistedChats'[i].id = id => PersistedChats'[i].messages = ms

(* What one step does to the invocations of handleSendMessage, in the      *)
(* order of its statements: a new invocation has stored its history, which *)
(* ends with the user's message, has put the empty placeholder in the view *)
(* and awaits fetch; the response starts the reading; each chunk puts the  *)
(* text read so far at the placeholder's index and stores nothing; the end *)
(* of the stream stores the history with the reply; a failure changes      *)
(* nothing; and an invocation that has ended is not resumed.               *)
SendStepInOrder ==
    /\ \A s \in sends' :
           (~ \E t \in sends : t.id = s.id) =>
               /\ s.id = nextSend
               /\ nextSend' = nextSend + 1
               /\ s.phase = "fetching"
               /\ s.chunks = <<>>
               /\ s.history # <<>>
               /\ s.history[Len(s.history)] = Msg(s.content, TRUE)
               /\ StoredAs(s.chat, s.history)
               /\ messages' = s.history \o <<Placeholder>>
    /\ nextSend' >= nextSend
    /\ \A s \in sends : s.id < nextSend
    /\ \A s \in sends :
           /\ FetchResponds(s) =>
                  /\ s.phase = "fetching"
                  /\ UNCHANGED <<chats, stored, messages>>
           /\ (\E cause \in AbortCauses : FetchFails(s, cause)) =>
                  /\ s.phase = "fetching"
                  /\ s.chunks = <<>>
                  /\ UNCHANGED <<chats, stored, messages>>
           /\ (\E value \in Chunks : ReadChunk(s, value)) =>
                  /\ s.phase = "reading"
                  /\ UNCHANGED <<chats, stored>>
                  /\ \E t \in sends' :
                         /\ t.id = s.id
                         /\ Len(t.chunks) = Len(s.chunks) + 1
                         /\ Len(messages') > s.llmResponseIndex
                         /\ messages'[s.llmResponseIndex + 1]
                                = Msg(ConcatDecoded(t.chunks), FALSE)
           /\ ReadDone(s) =>
                  /\ s.phase = "reading"
                  /\ StoredAs(s.chat, s.history \o <<Msg(ConcatDecoded(s.chunks), FALSE)>>)
                  /\ UNCHANGED messages
                  /\ ~ \E t \in sends' : t.id = s.id
           /\ ReadThrows(s) =>
                  /\ s.phase = "reading"
                  /\ UNCHANGED <<chats, stored, messages>>
                  /\ ~ \E t \in sends' : t.id = s.id

(* C17: every send goes through its phases in order: the user's message is *)
(* appended and stored and the empty placeholder shown, then the request   *)
(* is awaited and the partial texts are applied, and the send ends either  *)
(* completed, with the assistant message stored, or aborted; no chunk is   *)
(* applied before the placeholder and nothing after the end.               *)
C17_PhasesInOrder == [][SendStepInOrder]_vars

(* The number of assistant messages of a sequence *)
AssistantCount(ms) ==
    Cardinality({j \in 1..Len(ms) : IsMsg(ms[j]) /\ ~ms[j].isUser})

(* C18: no assistant entry reaches the store while its send is in flight:  *)
(* a stored thread gains an assistant message only in the step in which a  *)
(* stream signals end-of-data, and neither a chunk nor a failure after     *)
(* some chunks changes the store.                                          *)
C18_AssistantStoredOnlyAtEnd ==
    [][/\ (/\ stored' # stored
           /\ Len(chats') = Len(chats)
           /\ \E i \in 1..Len(PersistedChats) :
                  AssistantCount(PersistedChats'[i].messages)
                      > AssistantCount(PersistedChats[i].messages)) =>
              \E s \in sends : ReadDone(s)
       /\ \A s \in sends :
              (ReadThrows(s) \/ \E value \in Chunks : ReadChunk(s, value)) =>
                  UNCHANGED <<chats, stored>>]_vars

(* C19: an edit of message i replays a send whose history is the first     *)
(* i + 1 messages with newText at index i, and the completion of a send    *)
(* stores its history followed by the reply: i + 2 messages, the edited    *)
(* user message once, at index i, and the reply at index i + 1.            *)
C19_EditReplayStoresOneReply ==
    [][/\ \A index \in 0..(Len(messages) - 1), newText \in EditTexts :
              (SaveEditedMessage(index, newText) /\ sends' # sends) =>
                  \A s \in sends' \ sends :
                      /\ s.replay
                      /\ s.history = EditedPrefix(messages, index, newText)
                      /\ s.llmResponseIndex = index + 1
                      /\ s.history[index + 1] = Msg(newText, TRUE)
       /\ \A s \in sends :
              (ReadDone(s) /\ s.replay) =>
                  \A i \in 1..Len(PersistedChats') :
                      PersistedChats'[i].id = s.chat =>
                          LET ms == PersistedChats'[i].messages
                          IN  /\ Len(ms) = s.llmResponseIndex + 1
                              /\ SubSeq(ms, 1, s.llmResponseIndex) = s.history
                              /\ ms[s.llmResponseIndex] = Msg(s.content, TRUE)
                              /\ ms[s.llmResponseIndex + 1]
                                     = Msg(ConcatDecoded(s.chunks), FALSE)]_vars

(* C20: a send, an edit or a selection writes no assistant message into    *)
(* the store: every assistant message a stored thread holds after such a   *)
(* step was in that thread, at that index, before it.                      *)
C20_PlaceholderNeverStored ==
    [][(\/ \E input \in Inputs : HandleSend(input)
        \/ \E index \in 0..(Len(messages) - 1), newText \in EditTexts :
               SaveEditedMessage(index, newText)
        \/ \E chatId \in Ids : HandleSelectChat(chatId)) =>
           \A i \in 1..Len(PersistedChats') :
               LET before == PersistedChats[i].messages
                   after == PersistedChats'[i].messages
               IN  \A j \in 1..Len(after) :
                       (IsMsg(after[j]) /\ ~after[j].isUser) =>
                           (j <= Len(before) /\ before[j] = after[j])]_vars

(* C21: a chunk of a send issued on one thread leaves the live view as it  *)
(* is when another thread is the selected one.                             *)
C21_ChunkOnlyInOwnView ==
    [][\A s \in sends, value \in Chunks :
          (ReadChunk(s, value)
               /\ selectedChat # Null /\ selectedChat # s.chat) =>
              UNCHANGED messages]_vars

(* C22: the end of a stream stores the reply in the thread that was        *)
(* selected when the send was issued, whatever is selected now, and        *)
(* changes the messages of no other thread.                                *)
C22_CompletionInIssuingThread ==
    [][\A s \in sends :
          (ReadDone(s) /\ s.chat \in ChatIds(chats)) =>
              /\ \E k \in 1..Len(chats) :
                     /\ chats[k].id = s.chat
                     /\ chats' = [chats EXCEPT ![k].messages =
                            s.history \o <<Msg(ConcatDecoded(s.chunks), FALSE)>>]
              /\ PersistedChats' = chats'
              /\ UNCHANGED selectedChat]_vars

(* C23: the end of a stream removes nothing from what its thread has       *)
(* stored: every stored message of the thread stays at its index, but for  *)
(* the index of the reply, which the completion writes.                    *)
C23_CompletionKeepsLaterMessages ==
    [][\A s \in sends :
          ReadDone(s) =>
              \A i \in 1..Len(PersistedChats) :
                  PersistedChats[i].id = s.chat =>
                      LET before == PersistedChats[i].messages
                          after == PersistedChats'[i].messages
                      IN  \A j \in 1..Len(before) :
                              /\ j <= Len(after)
                              /\ j # s.llmResponseIndex + 1 => after[j] = before[j]]_vars

(* C24: a thread deleted while one of its sends is in flight stays         *)
(* deleted: a chunk or the end of the stream of a send whose thread is not *)
(* in the collection changes neither the collection nor the store, and no  *)
(* resumption of a send changes which threads there are.                   *)
C24_DeletedStaysDeleted ==
    [][\A s \in sends :
          (ReadDone(s) \/ ReadThrows(s) \/ FetchResponds(s)
               \/ (\E value \in Chunks : ReadChunk(s, value))
               \/ (\E cause \in AbortCauses : FetchFails(s, cause))) =>
              /\ Len(chats') = Len(chats)
              /\ \A i \in 1..Len(chats) : chats'[i].id = chats[i].id
              /\ Len(PersistedChats') = Len(chats)
              /\ \A i \in 1..Len(chats) : PersistedChats'[i].id = chats[i].id
              /\ s.chat \notin ChatIds(chats) => UNCHANGED <<chats, stored>>]_vars

(* The thread of a send was deleted, and a chunk of the send was read      *)
(* after that: it is in the view that the deletion had emptied.            *)
C24_Witness ==
    \E s \in sends :
        /\ s.chat \notin ChatIds(chats)
        /\ s.chat \notin {PersistedChats[i].id : i \in 1..Len(PersistedChats)}
        /\ s.phase = "reading"
        /\ s.chunks # <<>>
        /\ selectedChat = Null
        /\ messages # <<>>

(* C25: in every reachable state the selection is null or the id of a      *)
(* thread of the collection.                                               *)
C25_SelectionValid ==
    selectedChat = Null \/ \E i \in 1..Len(chats) : chats[i].id = selectedChat

(* A deletion was confirmed while another thread stays in the collection.  *)
C25_Witness ==
    /\ toastMessage = "Chat deleted successfully!"
    /\ Len(chats) = 1
    /\ chats[1].name = "Chat 2"
    /\ selectedChat = Null
    /\ ~isModalOpen

(* C26: the threads of the collection have pairwise distinct ids.          *)
C26_DistinctIds ==
    \A i, j \in 1..Len(chats) : chats[i].id = chats[j].id => i = j

====
